---------------------------- MODULE Spec2Model ----------------------------
(***************************************************************************)
(* Model of scripts/validate_cdc_excludes.py: the CDC field exclude        *)
(* validation run (main) and the text functions it is built from.          *)
(*                                                                         *)
(* A Python str is a sequence of one-character strings.  A parsed JSON     *)
(* value is a record [t, v]: t is "str", "list", "dict" or "null"; v is    *)
(* the characters, the items, or the <<key, value>> pairs in file order.   *)
(***************************************************************************)
EXTENDS Integers, Sequences, FiniteSets, TLC

VARIABLES
    pc,              \* the statement of main() that runs next
    argv,            \* what parse_args made of the command line
    env,             \* the three variables as os.getenv found them
    connection,      \* "none" (attribute never set), "open", "closed"
    close_calls,     \* calls of connection.close()
    query,           \* the exclusion query: [outcome, results (the rows fetched)]
    exclude_fields,  \* validator.exclude_fields
    file,            \* how reading the configuration file went
    extract_config,  \* the parsed configuration
    table_configs,   \* the list extract_table_configs returned
    errors,          \* the list validate_colexc_statements returned
    raised,          \* the exception or SystemExit on its way out of the try
    out,             \* the lines printed, by kind
    steps,           \* the pipeline steps entered, in order
    exit_code        \* the process's exit status, -1 while it runs

vars == <<pc, argv, env, connection, close_calls, query, exclude_fields, file,
          extract_config, table_configs, errors, raised, out, steps, exit_code>>

(***************************************************************************)
(* Characters and the classes the three regular expressions use.           *)
(***************************************************************************)
LowerAlpha ==
    <<"a", "b", "c", "d", "e", "f", "g", "h", "i", "j", "k", "l", "m",
      "n", "o", "p", "q", "r", "s", "t", "u", "v", "w", "x", "y", "z">>

UpperAlpha ==
    <<"A", "B", "C", "D", "E", "F", "G", "H", "I", "J", "K", "L", "M",
      "N", "O", "P", "Q", "R", "S", "T", "U", "V", "W", "X", "Y", "Z">>

Digits == {"0", "1", "2", "3", "4", "5", "6", "7", "8", "9"}

Range(s) == {s[i] : i \in DOMAIN s}

LowerToUpper ==
    [c \in Range(LowerAlpha) |->
        UpperAlpha[CHOOSE i \in DOMAIN LowerAlpha : LowerAlpha[i] = c]]

\* str.upper() on one character
UpperChar(c) == IF c \in DOMAIN LowerToUpper THEN LowerToUpper[c] ELSE c

\* str.upper()
Upper(s) == [i \in DOMAIN s |-> UpperChar(s[i])]

SpaceChars == {" ", "\n", "\t", "\r"}

WordChars == Range(LowerAlpha) \cup Range(UpperAlpha) \cup Digits \cup {"_"}

\* \s
IsSpace(c) == c \in SpaceChars

\* \w
IsWord(c) == c \in WordChars

\* the character classes of the patterns, by name
InClass(cls, c) ==
    CASE cls = "space"   -> IsSpace(c)                      \* \s
      [] cls = "ident"   -> IsWord(c) \/ c = "."            \* [\w\.]
      [] cls = "identst" -> IsWord(c) \/ c \in {".", "*"}   \* [\w\.\*]
      [] cls = "notnl"   -> c # "\n"                        \* [^\n]
      [] cls = "nonsep"  -> ~IsSpace(c) /\ c # ","          \* [^,\s]

kwTABLE == <<"T", "A", "B", "L", "E">>
kwCOLEXC == <<"C", "O", "L", "E", "X", "C">>

\* a literal of a pattern matches s at position i under re.IGNORECASE
MatchCI(s, i, lit) ==
    /\ i >= 1
    /\ i + Len(lit) - 1 <= Len(s)
    /\ \A k \in 1..Len(lit) : UpperChar(s[i + k - 1]) = UpperChar(lit[k])

\* greedy cls*: the first position at or after i whose character is not in cls
RECURSIVE SpanEnd(_, _, _)
SpanEnd(s, i, cls) ==
    IF i <= Len(s) /\ InClass(cls, s[i]) THEN SpanEnd(s, i + 1, cls) ELSE i

Slice(s, a, b) == IF b < a THEN <<>> ELSE SubSeq(s, a, b)

\* str.strip()
RECURSIVE LStrip(_)
LStrip(s) ==
    IF s # <<>> /\ IsSpace(Head(s)) THEN LStrip(Tail(s)) ELSE s

RECURSIVE RStrip(_)
RStrip(s) ==
    IF s # <<>> /\ IsSpace(s[Len(s)]) THEN RStrip(SubSeq(s, 1, Len(s) - 1)) ELSE s

Strip(s) == LStrip(RStrip(s))

\* Python's `sub in s` for two strings
Contains(s, sub) ==
    \E i \in 1..(Len(s) - Len(sub) + 1) : SubSeq(s, i, i + Len(sub) - 1) = sub

(***************************************************************************)
(* r'TABLE\s+[\w\.\*]+[^\n]*' (find_table_statements).  \s and [\w\.\*]    *)
(* are disjoint, so a match at i exists exactly when TABLE is followed by  *)
(* a non-empty maximal run of whitespace and then a character of           *)
(* [\w\.\*]; the greedy tail [^\n]* takes the rest of that line.           *)
(***************************************************************************)
TableStmtEnd(s, i) ==
    LET ws == i + Len(kwTABLE)
        id == SpanEnd(s, ws, "space")
    IN  IF /\ MatchCI(s, i, kwTABLE)
           /\ id > ws
           /\ id <= Len(s)
           /\ InClass("identst", s[id])
        THEN SpanEnd(s, id, "notnl")
        ELSE 0

\* re.finditer: the non-overlapping matches, left to right, as <<start, end>>
RECURSIVE FindIter(_, _)
FindIter(s, pos) ==
    IF pos > Len(s) THEN <<>>
    ELSE LET e == TableStmtEnd(s, pos)
         IN  IF e > 0 THEN <<(<<pos, e - 1>>)>> \o FindIter(s, e)
             ELSE FindIter(s, pos + 1)

(***************************************************************************)
(* JSON values                                                             *)
(***************************************************************************)
Str(s) == [t |-> "str", v |-> s]
List(xs) == [t |-> "list", v |-> xs]
Dict(kvs) == [t |-> "dict", v |-> kvs]
Null == [t |-> "null", v |-> <<>>]

\* the characters of the keys the code names
KeyChars(k) ==
    CASE k = "raw_config" -> <<"r", "a", "w", "_", "c", "o", "n", "f", "i", "g">>
      [] k = "parameters" -> <<"p", "a", "r", "a", "m", "e", "t", "e", "r", "s">>
      [] OTHER -> <<>>

HasKey(d, k) == \E i \in DOMAIN d.v : d.v[i][1] = k

\* dict.get(k, default)
Get(d, k, default) ==
    IF HasKey(d, k) THEN d.v[CHOOSE i \in DOMAIN d.v : d.v[i][1] = k][2] ELSE default

\* Python's `k in obj` for a str key k; "raise" stands for the TypeError
KeyIn(k, obj) ==
    CASE obj.t = "dict" -> IF HasKey(obj, k) THEN "yes" ELSE "no"
      [] obj.t = "str"  -> IF Contains(obj.v, KeyChars(k)) THEN "yes" ELSE "no"
      [] obj.t = "list" ->
            IF \E i \in DOMAIN obj.v :
                   obj.v[i].t = "str" /\ obj.v[i].v = KeyChars(k)
            THEN "yes" ELSE "no"
      [] OTHER -> "raise"

(***************************************************************************)
(* extract_table_configs                                                   *)
(***************************************************************************)
UNKNOWN == Str(<<"U", "N", "K", "N", "O", "W", "N">>)

\* one (extract_name, table_statement, full_config_text) tuple
TableConfig(extract_name, table_statement, full_config) ==
    [extract_name |-> extract_name,
     table_statement |-> table_statement,
     full_config |-> full_config]

\* the tuples of one string with the statement itself kept as the context
StringStatementsOwnContext(s, extract_name) ==
    LET ms == FindIter(s, 1)
    IN  [k \in DOMAIN ms |->
            TableConfig(extract_name, Strip(Slice(s, ms[k][1], ms[k][2])),
                        Strip(Slice(s, ms[k][1], ms[k][2])))]

\* the tuples one string yields: one per match, each with the whole string
StringStatements(s, extract_name) ==
    LET ms == FindIter(s, 1)
    IN  [k \in DOMAIN ms |->
            TableConfig(extract_name, Strip(Slice(s, ms[k][1], ms[k][2])), s)]

RECURSIVE find_table_statements(_, _)
RECURSIVE WalkItems(_, _, _, _)

\* the nested function: appends to table_configs, depth first, in order
find_table_statements(obj, extract_name) ==
    CASE obj.t = "str"  -> StringStatements(obj.v, extract_name)
      [] obj.t = "dict" -> WalkItems(obj.v, 1, TRUE, extract_name)
      [] obj.t = "list" -> WalkItems(obj.v, 1, FALSE, extract_name)
      [] OTHER -> <<>>

\* the two for loops of find_table_statements (over dict items, over list items)
WalkItems(items, k, pairs, extract_name) ==
    IF k > Len(items) THEN <<>>
    ELSE find_table_statements(IF pairs THEN items[k][2] ELSE items[k], extract_name)
            \o WalkItems(items, k + 1, pairs, extract_name)

\* config_sections: what the raw_config and parameters checks collect.
\* Nothing reads the list afterwards.
config_sections(config) ==
    (IF KeyIn("raw_config", config) = "yes"
     THEN <<Get(config, "raw_config", Null)>> ELSE <<>>)
    \o
    (IF KeyIn("parameters", config) = "yes"
     THEN LET p == Get(config, "parameters", Null)
          IN  CASE p.t = "str" -> <<p>>
                [] p.t = "list" -> p.v
                [] OTHER -> <<>>
     ELSE <<>>)

\* whether the raw_config / parameters checks raise TypeError: the `in`
\* test on a value that is no container, or config['raw_config'] on a
\* str or list that holds the key's text
SectionsRaise(config) ==
    \E k \in {"raw_config", "parameters"} :
        \/ KeyIn(k, config) = "raise"
        \/ KeyIn(k, config) = "yes" /\ config.t # "dict"

\* the loop body with config_sections scanned as well as the whole config
ExtractEntryWithSections(extract) ==
    IF extract.t # "dict" THEN [exc |-> TRUE, val |-> <<>>]
    ELSE LET extract_name == Get(extract, "name", UNKNOWN)
             config == Get(extract, "config", Dict(<<>>))
         IN  IF SectionsRaise(config) THEN [exc |-> TRUE, val |-> <<>>]
             ELSE [exc |-> FALSE,
                   val |-> WalkItems(config_sections(config), 1, FALSE, extract_name)
                             \o find_table_statements(config, extract_name)]

\* the body of the loop for one entry of the extract list;
\* exc: an AttributeError or TypeError left the function
ExtractEntry(extract) ==
    IF extract.t # "dict" THEN [exc |-> TRUE, val |-> <<>>]
    ELSE LET extract_name == Get(extract, "name", UNKNOWN)
             config == Get(extract, "config", Dict(<<>>))
         IN  IF SectionsRaise(config) THEN [exc |-> TRUE, val |-> <<>>]
             ELSE [exc |-> FALSE,
                   val |-> find_table_statements(config, extract_name)]

RECURSIVE ExtractLoop(_, _)
ExtractLoop(extracts, k) ==
    IF k > Len(extracts) THEN [exc |-> FALSE, val |-> <<>>]
    ELSE LET one == ExtractEntry(extracts[k])
             rest == ExtractLoop(extracts, k + 1)
         IN  IF one.exc \/ rest.exc THEN [exc |-> TRUE, val |-> <<>>]
             ELSE [exc |-> FALSE, val |-> one.val \o rest.val]

\* [exc, val]: val is the returned list; exc, an exception left the call
extract_table_configs(document) ==
    IF document.t # "dict" THEN [exc |-> TRUE, val |-> <<>>]
    ELSE LET extracts == Get(document, "extracts", List(<<>>))
         IN  CASE extracts.t = "list" -> ExtractLoop(extracts.v, 1)
               \* iterating a dict or a str gives str items, and str has no .get
               [] extracts.t \in {"dict", "str"} ->
                      [exc |-> extracts.v # <<>>, val |-> <<>>]
               [] OTHER -> [exc |-> TRUE, val |-> <<>>]

(***************************************************************************)
(* extract_table_name: r'TABLE\s+([\w\.]+)' with re.search                 *)
(***************************************************************************)
\* the start of group 1 in the leftmost match at or after i, 0 when none
RECURSIVE TableRefStart(_, _)
TableRefStart(s, i) ==
    IF i > Len(s) THEN 0
    ELSE LET ws == i + Len(kwTABLE)
             id == SpanEnd(s, ws, "space")
         IN  IF /\ MatchCI(s, i, kwTABLE)
                /\ id > ws
                /\ id <= Len(s)
                /\ InClass("ident", s[id])
             THEN id
             ELSE TableRefStart(s, i + 1)

\* table_ref.split('.')[-1]
RECURSIVE AfterLastDot(_)
AfterLastDot(ref) ==
    IF ref = <<>> \/ ref[Len(ref)] = "." THEN <<>>
    ELSE Append(AfterLastDot(SubSeq(ref, 1, Len(ref) - 1)), ref[Len(ref)])

\* the name without the split at the dots
extract_table_name_qualified(table_statement) ==
    LET id == TableRefStart(table_statement, 1)
    IN  IF id > 0
        THEN Upper(Slice(table_statement, id, SpanEnd(table_statement, id, "ident") - 1))
        ELSE <<>>

extract_table_name(table_statement) ==
    LET id == TableRefStart(table_statement, 1)
    IN  IF id > 0
        THEN LET table_ref ==
                     Slice(table_statement, id,
                           SpanEnd(table_statement, id, "ident") - 1)
                 table_name ==
                     IF "." \in Range(table_ref) THEN AfterLastDot(table_ref)
                     ELSE table_ref
             IN  Upper(table_name)
        ELSE <<>>

(***************************************************************************)
(* rf'COLEXC\s+[^,\s]*{re.escape(field)}[^,\s]*' with re.search, as a      *)
(* backtracking match: any non-empty run of whitespace, any run of         *)
(* [^,\s], then the field's characters; the trailing [^,\s]* may be empty. *)
(***************************************************************************)
RECURSIVE FieldAfterRun(_, _, _)
FieldAfterRun(s, j, field) ==
    \/ MatchCI(s, j, field)
    \/ /\ j <= Len(s)
       /\ InClass("nonsep", s[j])
       /\ FieldAfterRun(s, j + 1, field)

RECURSIVE FieldAfterSpace(_, _, _)
FieldAfterSpace(s, j, field) ==
    /\ j <= Len(s)
    /\ IsSpace(s[j])
    /\ \/ FieldAfterRun(s, j + 1, field)
       \/ FieldAfterSpace(s, j + 1, field)

\* the pattern without its leading [^,\s]*: the field has to start the token
RECURSIVE ColexcSearchTokenStart(_, _, _)
ColexcSearchTokenStart(s, i, field) ==
    /\ i <= Len(s)
    /\ \/ /\ MatchCI(s, i, kwCOLEXC)
          /\ SpanEnd(s, i + Len(kwCOLEXC), "space") > i + Len(kwCOLEXC)
          /\ MatchCI(s, SpanEnd(s, i + Len(kwCOLEXC), "space"), field)
       \/ ColexcSearchTokenStart(s, i + 1, field)

RECURSIVE ColexcSearch(_, _, _)
ColexcSearch(s, i, field) ==
    /\ i <= Len(s)
    /\ \/ MatchCI(s, i, kwCOLEXC) /\ FieldAfterSpace(s, i + Len(kwCOLEXC), field)
       \/ ColexcSearch(s, i + 1, field)

(***************************************************************************)
(* validate_colexc_statements                                              *)
(***************************************************************************)
\* the two error messages, by their parts
NoNameError(extract_name, table_statement) ==
    [kind |-> "no_table_name", extract_name |-> extract_name,
     subject |-> table_statement, fields |-> <<>>]

MissingError(extract_name, table_name, missing_colexc) ==
    [kind |-> "missing_colexc", extract_name |-> extract_name,
     subject |-> table_name, fields |-> missing_colexc]

\* the inner loop: the required fields with no COLEXC match in full_config
RECURSIVE missing_colexc(_, _)
missing_colexc(required_fields, full_config) ==
    IF required_fields = <<>> THEN <<>>
    ELSE (IF ~ColexcSearch(full_config, 1, Head(required_fields))
          THEN <<Head(required_fields)>> ELSE <<>>)
         \o missing_colexc(Tail(required_fields), full_config)

\* the body of the outer loop: the errors one tuple appends
ValidateOne(tc, excl) ==
    LET table_name == extract_table_name(tc.table_statement)
    IN  IF table_name = <<>>
        THEN <<NoNameError(tc.extract_name, tc.table_statement)>>
        ELSE IF table_name \in DOMAIN excl
        THEN LET missing == missing_colexc(excl[table_name], tc.full_config)
             IN  IF missing # <<>>
                 THEN <<MissingError(tc.extract_name, table_name, missing)>>
                 ELSE <<>>
        ELSE <<>>

\* the loop leaving at the first declaration that fails
RECURSIVE validate_until_first_error(_, _)
validate_until_first_error(tcs, excl) ==
    IF tcs = <<>> THEN <<>>
    ELSE IF ValidateOne(Head(tcs), excl) # <<>> THEN ValidateOne(Head(tcs), excl)
    ELSE validate_until_first_error(Tail(tcs), excl)

RECURSIVE validate_colexc_statements(_, _)
validate_colexc_statements(tcs, excl) ==
    IF tcs = <<>> THEN <<>>
    ELSE ValidateOne(Head(tcs), excl) \o validate_colexc_statements(Tail(tcs), excl)

(***************************************************************************)
(* get_exclude_fields: the grouping loop over the fetched rows             *)
(***************************************************************************)
EmptyMap == [x \in {} |-> <<>>]

\* exclude_map after one more row
AddRow(exclude_map, row) ==
    LET table_name == Upper(row[1])
        field_name == Upper(row[2])
    IN  IF table_name \in DOMAIN exclude_map
        THEN [exclude_map EXCEPT ![table_name] = Append(@, field_name)]
        ELSE exclude_map @@ (table_name :> <<field_name>>)

RECURSIVE GroupRows(_, _)
GroupRows(results, exclude_map) ==
    IF results = <<>> THEN exclude_map
    ELSE GroupRows(Tail(results), AddRow(exclude_map, Head(results)))

(***************************************************************************)
(* The inputs of a run                                                     *)
(***************************************************************************)
EnvVars ==
    {"DATABRICKS_SERVER_HOSTNAME", "DATABRICKS_HTTP_PATH", "DATABRICKS_ACCESS_TOKEN"}

\* os.getenv gives None for "unset", '' for "empty"
EnvValues == {"unset", "empty", "set"}

\* `not all([...])`: None and '' are both falsy
Falsy(val) == val \in {"unset", "empty"}

\* the rows the warehouse can hold, in the query's ORDER BY order
RowPool ==
    << <<(<<"C", "U", "S", "T">>), (<<"I", "D">>)>>,
       <<(<<"O", "R", "D", "E", "R", "S">>), (<<"D", "O", "B">>)>>,
       <<(<<"O", "R", "D", "E", "R", "S">>), (<<"S", "S", "N">>)>>,
       <<(<<"o", "r", "d", "e", "r", "s">>), (<<"s", "s", "n">>)>> >>

MaxRows == 2

\* the result sets: up to MaxRows rows, ordered, a row possibly repeated
RowIndexSeqs ==
    UNION {{q \in [1..n -> DOMAIN RowPool] :
                \A i \in 1..(n - 1) : q[i] <= q[i + 1]} : n \in 0..MaxRows}

Rows(q) == [i \in DOMAIN q |-> RowPool[q[i]]]

\* configuration documents chosen for their shape
HandDocs ==
    <<
      \* 1: no extracts key
      \*    {}
      Dict(<<>>),
      \* 2: empty extract list
      \*    {"extracts": []}
      Dict(<<
        <<"extracts", List(<<>>)>> >>),
      \* 3: config absent
      \*    {"extracts": [{"name": "EXT1"}]}
      Dict(<<
        <<"extracts", List(<<
            Dict(<<
              <<"name", Str(<<"E", "X", "T", "1">>)>> >>) >>)>> >>),
      \* 4: config empty
      \*    {"extracts": [{"name": "EXT1", "config": {}}]}
      Dict(<<
        <<"extracts", List(<<
            Dict(<<
              <<"name", Str(<<"E", "X", "T", "1">>)>>,
              <<"config", Dict(<<>>)>> >>) >>)>> >>),
      \* 5: the three statements in one string
      \*    {"extracts": [{"name": "EXT1", "config": {"raw_config": "TABLE ORDERS\nCOLEXC SSN\nCOLEXC DOB"}}]}
      Dict(<<
        <<"extracts", List(<<
            Dict(<<
              <<"name", Str(<<"E", "X", "T", "1">>)>>,
              <<"config", Dict(<<
                  <<"raw_config", Str(<<"T", "A", "B", "L", "E", " ", "O", "R", "D", "E", "R", "S", "\n", "C", "O", "L", "E", "X", "C", " ", "S", "S", "N", "\n", "C", "O", "L", "E", "X", "C", " ", "D", "O", "B">>)>> >>)>> >>) >>)>> >>),
      \* 6: the three statements as list elements
      \*    {"extracts": [{"name": "EXT1", "config": {"parameters": ["TABLE ORDERS", "COLEXC SSN", "COLEXC DOB"]}}]}
      Dict(<<
        <<"extracts", List(<<
            Dict(<<
              <<"name", Str(<<"E", "X", "T", "1">>)>>,
              <<"config", Dict(<<
                  <<"parameters", List(<<
                      Str(<<"T", "A", "B", "L", "E", " ", "O", "R", "D", "E", "R", "S">>),
                      Str(<<"C", "O", "L", "E", "X", "C", " ", "S", "S", "N">>),
                      Str(<<"C", "O", "L", "E", "X", "C", " ", "D", "O", "B">>) >>)>> >>)>> >>) >>)>> >>),
      \* 7: the three statements in separate string values
      \*    {"extracts": [{"name": "EXT1", "config": {"tables": "TABLE ORDERS", "excludes": {"a": "COLEXC SSN", "b": "COLEXC DOB"}}}]}
      Dict(<<
        <<"extracts", List(<<
            Dict(<<
              <<"name", Str(<<"E", "X", "T", "1">>)>>,
              <<"config", Dict(<<
                  <<"tables", Str(<<"T", "A", "B", "L", "E", " ", "O", "R", "D", "E", "R", "S">>)>>,
                  <<"excludes", Dict(<<
                      <<"a", Str(<<"C", "O", "L", "E", "X", "C", " ", "S", "S", "N">>)>>,
                      <<"b", Str(<<"C", "O", "L", "E", "X", "C", " ", "D", "O", "B">>)>> >>)>> >>)>> >>) >>)>> >>),
      \* 8: unnamed entry, deep nesting, two declarations in one string, strings outside config
      \*    {"description": "TABLE ORDERS", "extracts": [{"note": "TABLE ORDERS", "config": {"nested": {"deep": [{"x": "TABLE SCHEMA.ORDERS COLEXC SSN_MASKED\nTABLE CUST"}]}}}]}
      Dict(<<
        <<"description", Str(<<"T", "A", "B", "L", "E", " ", "O", "R", "D", "E", "R", "S">>)>>,
        <<"extracts", List(<<
            Dict(<<
              <<"note", Str(<<"T", "A", "B", "L", "E", " ", "O", "R", "D", "E", "R", "S">>)>>,
              <<"config", Dict(<<
                  <<"nested", Dict(<<
                      <<"deep", List(<<
                          Dict(<<
                            <<"x", Str(<<"T", "A", "B", "L", "E", " ", "S", "C", "H", "E", "M", "A", ".", "O", "R", "D", "E", "R", "S", " ", "C", "O", "L", "E", "X", "C", " ", "S", "S", "N", "_", "M", "A", "S", "K", "E", "D", "\n", "T", "A", "B", "L", "E", " ", "C", "U", "S", "T">>)>> >>) >>)>> >>)>> >>)>> >>) >>)>> >>),
      \* 9: DOB exclusion missing; the same declaration under raw_config and parameters
      \*    {"extracts": [{"name": "EXT1", "config": {"raw_config": "TABLE ORDERS\nCOLEXC SSN", "parameters": "TABLE ORDERS"}}]}
      Dict(<<
        <<"extracts", List(<<
            Dict(<<
              <<"name", Str(<<"E", "X", "T", "1">>)>>,
              <<"config", Dict(<<
                  <<"raw_config", Str(<<"T", "A", "B", "L", "E", " ", "O", "R", "D", "E", "R", "S", "\n", "C", "O", "L", "E", "X", "C", " ", "S", "S", "N">>)>>,
                  <<"parameters", Str(<<"T", "A", "B", "L", "E", " ", "O", "R", "D", "E", "R", "S">>)>> >>)>> >>) >>)>> >>),
      \* 10: config is a string
      \*    {"extracts": [{"name": "EXT1", "config": "TABLE ORDERS COLEXC SSN COLEXC DOB"}]}
      Dict(<<
        <<"extracts", List(<<
            Dict(<<
              <<"name", Str(<<"E", "X", "T", "1">>)>>,
              <<"config", Str(<<"T", "A", "B", "L", "E", " ", "O", "R", "D", "E", "R", "S", " ", "C", "O", "L", "E", "X", "C", " ", "S", "S", "N", " ", "C", "O", "L", "E", "X", "C", " ", "D", "O", "B">>)>> >>) >>)>> >>),
      \* 11: config is null
      \*    {"extracts": [{"name": "EXT1", "config": null}]}
      Dict(<<
        <<"extracts", List(<<
            Dict(<<
              <<"name", Str(<<"E", "X", "T", "1">>)>>,
              <<"config", Null>> >>) >>)>> >>),
      \* 12: top level is a list
      \*    [{"name": "EXT1", "config": {"raw_config": "TABLE ORDERS"}}]
      List(<<
        Dict(<<
          <<"name", Str(<<"E", "X", "T", "1">>)>>,
          <<"config", Dict(<<
              <<"raw_config", Str(<<"T", "A", "B", "L", "E", " ", "O", "R", "D", "E", "R", "S">>)>> >>)>> >>) >>),
      \* 13: an entry is a string
      \*    {"extracts": ["TABLE ORDERS"]}
      Dict(<<
        <<"extracts", List(<<
            Str(<<"T", "A", "B", "L", "E", " ", "O", "R", "D", "E", "R", "S">>) >>)>> >>),
      \* 14: two entries; trailing dot and lower case
      \*    {"extracts": [{"name": "EXT1", "config": {"raw_config": "TABLE ORDERS"}}, {"name": "EXT2", "config": {"parameters": ["table cust", "TABLE S."]}}]}
      Dict(<<
        <<"extracts", List(<<
            Dict(<<
              <<"name", Str(<<"E", "X", "T", "1">>)>>,
              <<"config", Dict(<<
                  <<"raw_config", Str(<<"T", "A", "B", "L", "E", " ", "O", "R", "D", "E", "R", "S">>)>> >>)>> >>),
            Dict(<<
              <<"name", Str(<<"E", "X", "T", "2">>)>>,
              <<"config", Dict(<<
                  <<"parameters", List(<<
                      Str(<<"t", "a", "b", "l", "e", " ", "c", "u", "s", "t">>),
                      Str(<<"T", "A", "B", "L", "E", " ", "S", ".">>) >>)>> >>)>> >>) >>)>> >>),
      \* 15: config is a string holding a key's text
      \*    {"extracts": [{"name": "EXT1", "config": "see parameters"}]}
      Dict(<<
        <<"extracts", List(<<
            Dict(<<
              <<"name", Str(<<"E", "X", "T", "1">>)>>,
              <<"config", Str(<<"s", "e", "e", " ", "p", "a", "r", "a", "m", "e", "t", "e", "r", "s">>)>> >>) >>)>> >>),
      \* 16: extracts is null
      \*    {"extracts": null}
      Dict(<<
        <<"extracts", Null>> >>),
      \* 17: a good entry, then one whose config is null
      \*    {"extracts": [{"name": "EXT1", "config": {"raw_config": "TABLE ORDERS"}}, {"name": "EXT2", "config": null}]}
      Dict(<<
        <<"extracts", List(<<
            Dict(<<
              <<"name", Str(<<"E", "X", "T", "1">>)>>,
              <<"config", Dict(<<
                  <<"raw_config", Str(<<"T", "A", "B", "L", "E", " ", "O", "R", "D", "E", "R", "S">>)>> >>)>> >>),
            Dict(<<
              <<"name", Str(<<"E", "X", "T", "2">>)>>,
              <<"config", Null>> >>) >>)>> >>),
      \* 18: wildcard declarations
      \*    {"extracts": [{"name": "EXT1", "config": {"raw_config": "TABLE SCHEMA.*\nTABLE *\nCOLEXC SSN"}}]}
      Dict(<<
        <<"extracts", List(<<
            Dict(<<
              <<"name", Str(<<"E", "X", "T", "1">>)>>,
              <<"config", Dict(<<
                  <<"raw_config", Str(<<"T", "A", "B", "L", "E", " ", "S", "C", "H", "E", "M", "A", ".", "*", "\n", "T", "A", "B", "L", "E", " ", "*", "\n", "C", "O", "L", "E", "X", "C", " ", "S", "S", "N">>)>> >>)>> >>) >>)>> >>)
    >>

\* fragments of replication parameter text
Pieces ==
    <<
      <<"T", "A", "B", "L", "E", " ", "O", "R", "D", "E", "R", "S", "\n">>,
      <<"t", "a", "b", "l", "e", " ", "s", ".", "O", "r", "d", "e", "r", "s", ",", " ">>,
      <<"T", "A", "B", "L", "E", " ", "S", ".", "*", ";", "\n">>,
      <<"C", "O", "L", "E", "X", "C", " ", "S", "S", "N", "\n">>,
      <<"c", "o", "l", "e", "x", "c", " ", "(", "d", "o", "b", "_", "x", ")", " ">>,
      <<"C", "O", "L", "E", "X", "C", " ", "S", "S", "N", ",", " ", "D", "O", "B", "\n">>,
      <<"T", "A", "B", "L", "E", " ", "C", "U", "S", "T", " ">>,
      <<"T", "A", "B", "L", "E", " ", "*", "\n">>
    >>

MaxPieces == 2

PieceSeqs == UNION {[1..n -> DOMAIN Pieces] : n \in 1..MaxPieces}

RECURSIVE Concat(_)
Concat(q) == IF q = <<>> THEN <<>> ELSE Pieces[Head(q)] \o Concat(Tail(q))

\* one extract EXT1 whose config.raw_config is the fragments of q, joined
PieceDoc(q) ==
    Dict(<< <<"extracts",
              List(<< Dict(<< <<"name", Str(<<"E", "X", "T", "1">>)>>,
                              <<"config",
                                Dict(<< <<"raw_config", Str(Concat(q))>> >>)>> >>) >>)>> >>)

(***************************************************************************)
(* main()                                                                  *)
(***************************************************************************)
Init ==
    /\ pc = "parse_args"
    /\ argv = "none"
    /\ env = [v \in EnvVars |-> "unread"]
    /\ connection = "none"
    /\ close_calls = 0
    /\ query = [outcome |-> "none", results |-> <<>>]
    /\ exclude_fields = EmptyMap
    /\ file = "none"
    /\ extract_config = Null
    /\ table_configs = <<>>
    /\ errors = <<>>
    /\ raised = "none"
    /\ out = <<>>
    /\ steps = <<>>
    /\ exit_code = -1

\* parser.parse_args(): argparse leaves with status 0 after --help and with
\* status 2 after a command line it rejects, before anything else runs
main_parse_args ==
    /\ pc = "parse_args"
    /\ \E a \in {"usage_error", "help", "ok"} :
          /\ argv' = a
          /\ pc' = IF a = "ok" THEN "getenv" ELSE "exited"
          /\ exit_code' = CASE a = "ok" -> exit_code
                            [] a = "help" -> 0
                            [] a = "usage_error" -> 2
    /\ UNCHANGED <<env, connection, close_calls, query, exclude_fields, file,
                   extract_config, table_configs, errors, raised, out, steps>>

\* the lines printed when a variable is missing
MissingEnvLines(e) ==
    <<"missing_env_header", "DATABRICKS_SERVER_HOSTNAME", "DATABRICKS_HTTP_PATH",
      "DATABRICKS_ACCESS_TOKEN">>

\* the three os.getenv calls and the `not all(...)` check
main_getenv ==
    /\ pc = "getenv"
    /\ \E e \in [EnvVars -> EnvValues] :
          /\ env' = e
          /\ IF \E v \in EnvVars : Falsy(e[v])
             THEN /\ out' = out \o MissingEnvLines(e)
                  /\ exit_code' = 1
                  /\ pc' = "exited"
             ELSE /\ out' = out \o <<"starting">>
                  /\ exit_code' = exit_code
                  /\ pc' = "connect"
    /\ UNCHANGED <<argv, connection, close_calls, query, exclude_fields, file,
                   extract_config, table_configs, errors, raised, steps>>

\* validator.connect_to_databricks(), and sys.exit(1) when it returns False
main_connect ==
    /\ pc = "connect"
    /\ steps' = Append(steps, "connect")
    /\ \E ok \in BOOLEAN :
          IF ok
          THEN /\ connection' = "open"
               /\ out' = Append(out, "connected")
               /\ raised' = raised
               /\ pc' = "get_exclude_fields"
          ELSE /\ connection' = connection
               /\ out' = Append(out, "connect_failed")
               /\ raised' = "SystemExit"
               /\ pc' = "finally"
    /\ UNCHANGED <<argv, env, close_calls, query, exclude_fields, file,
                   extract_config, table_configs, errors, exit_code>>

\* validator.get_exclude_fields(): the query, then the grouping; a failure
\* of either leaves as CDCValidationError
main_get_exclude_fields ==
    /\ pc = "get_exclude_fields"
    /\ steps' = Append(steps, "query")
    /\ \/ \E q \in RowIndexSeqs :
             /\ query' = [outcome |-> "ok", results |-> Rows(q)]
             /\ exclude_fields' = GroupRows(Rows(q), EmptyMap)
             /\ out' = Append(out, "retrieved")
             /\ raised' = raised
             /\ pc' = "parse_extract_config"
       \/ \E failure \in {"execute_error", "row_error"} :
             /\ query' = [outcome |-> failure, results |-> <<>>]
             /\ exclude_fields' = exclude_fields
             /\ out' = out
             /\ raised' = "CDCValidationError"
             /\ pc' = "except"
    /\ UNCHANGED <<argv, env, connection, close_calls, file, extract_config,
                   table_configs, errors, exit_code>>

\* validator.parse_extract_config(args.config_path): open and json.load;
\* FileNotFoundError and JSONDecodeError leave as CDCValidationError, any
\* other error of open() or of the decoding as it is
main_parse_extract_config ==
    /\ pc = "parse_extract_config"
    /\ steps' = Append(steps, "open_config")
    /\ \/ /\ \/ \E h \in DOMAIN HandDocs : extract_config' = HandDocs[h]
             \/ \E q \in PieceSeqs : extract_config' = PieceDoc(q)
          /\ file' = "ok"
          /\ out' = Append(out, "parsed")
          /\ raised' = raised
          /\ pc' = "extract_table_configs"
       \/ \E failure \in {"not_found", "invalid_json", "os_error"} :
             /\ file' = failure
             /\ extract_config' = extract_config
             /\ out' = out
             /\ raised' = IF failure = "os_error" THEN "Exception"
                          ELSE "CDCValidationError"
             /\ pc' = "except"
    /\ UNCHANGED <<argv, env, connection, close_calls, query, exclude_fields,
                   table_configs, errors, exit_code>>

\* table_configs = validator.extract_table_configs(extract_config)
main_extract_table_configs ==
    /\ pc = "extract_table_configs"
    /\ steps' = Append(steps, "extract")
    /\ LET r == extract_table_configs(extract_config)
       IN  IF r.exc
           THEN /\ table_configs' = table_configs
                /\ out' = out
                /\ raised' = "Exception"
                /\ pc' = "except"
           ELSE /\ table_configs' = r.val
                /\ out' = Append(out, "found")
                /\ raised' = raised
                /\ pc' = "validate"
    /\ UNCHANGED <<argv, env, connection, close_calls, query, exclude_fields, file,
                   extract_config, errors, exit_code>>

\* `if not table_configs:` the warning and the return
main_no_tables ==
    /\ pc = "validate"
    /\ table_configs = <<>>
    /\ out' = Append(out, "warn_no_tables")
    /\ raised' = "return"
    /\ pc' = "finally"
    /\ UNCHANGED <<argv, env, connection, close_calls, query, exclude_fields, file,
                   extract_config, table_configs, errors, steps, exit_code>>

\* errors = validator.validate_colexc_statements(table_configs)
main_validate ==
    /\ pc = "validate"
    /\ table_configs # <<>>
    /\ steps' = Append(steps, "match")
    /\ errors' = validate_colexc_statements(table_configs, exclude_fields)
    /\ pc' = "report"
    /\ UNCHANGED <<argv, env, connection, close_calls, query, exclude_fields, file,
                   extract_config, table_configs, raised, out, exit_code>>

\* main_report with the sys.exit(1) of the error branch lost
main_report_without_exit ==
    /\ pc = "report"
    /\ steps' = Append(steps, "report")
    /\ out' = IF errors # <<>>
              THEN out \o <<"failed">> \o [i \in DOMAIN errors |-> "error_line"]
                       \o <<"fix_hint">>
              ELSE Append(out, "passed")
    /\ raised' = raised
    /\ pc' = "finally"
    /\ UNCHANGED <<argv, env, connection, close_calls, query, exclude_fields, file,
                   extract_config, table_configs, errors, exit_code>>

\* `if errors:` the error list and sys.exit(1), else the PASSED line
main_report ==
    /\ pc = "report"
    /\ steps' = Append(steps, "report")
    /\ IF errors # <<>>
       THEN /\ out' = out \o <<"failed">> \o [i \in DOMAIN errors |-> "error_line"]
                          \o <<"fix_hint">>
            /\ raised' = "SystemExit"
       ELSE /\ out' = Append(out, "passed")
            /\ raised' = raised
    /\ pc' = "finally"
    /\ UNCHANGED <<argv, env, connection, close_calls, query, exclude_fields, file,
                   extract_config, table_configs, errors, exit_code>>

\* an except clause that prints and lets the run go on with the next step
main_except_resumes ==
    /\ pc = "except"
    /\ out' = Append(out, IF raised = "CDCValidationError" THEN "validation_error"
                          ELSE "unexpected_error")
    /\ raised' = "none"
    /\ pc' = IF file = "none" THEN "parse_extract_config" ELSE "extract_table_configs"
    /\ UNCHANGED <<argv, env, connection, close_calls, query, exclude_fields, file,
                   extract_config, table_configs, errors, steps, exit_code>>

\* the two except clauses: a message, then sys.exit(1)
main_except ==
    /\ pc = "except"
    /\ out' = Append(out, IF raised = "CDCValidationError" THEN "validation_error"
                          ELSE "unexpected_error")
    /\ raised' = "SystemExit"
    /\ pc' = "finally"
    /\ UNCHANGED <<argv, env, connection, close_calls, query, exclude_fields, file,
                   extract_config, table_configs, errors, steps, exit_code>>

\* close_connection that never reaches connection.close()
close_connection_skipped == UNCHANGED <<connection, close_calls, out>>

\* `hasattr(self, 'connection') and self.connection`: the attribute stays
\* set, and true, after close()
close_connection ==
    IF connection # "none"
    THEN /\ connection' = "closed"
         /\ close_calls' = close_calls + 1
         /\ out' = Append(out, "closed")
    ELSE UNCHANGED <<connection, close_calls, out>>

\* the finally clause, then the process ends: status 1 for a SystemExit(1)
\* on its way out, 0 for a return or the end of main
main_finally ==
    /\ pc = "finally"
    /\ close_connection
    /\ exit_code' = IF raised = "SystemExit" THEN 1 ELSE 0
    /\ pc' = "exited"
    /\ UNCHANGED <<argv, env, query, exclude_fields, file, extract_config,
                   table_configs, errors, raised, steps>>

Next ==
    \/ main_parse_args
    \/ main_getenv
    \/ main_connect
    \/ main_get_exclude_fields
    \/ main_parse_extract_config
    \/ main_extract_table_configs
    \/ main_no_tables
    \/ main_validate
    \/ main_report
    \/ main_except
    \/ main_finally

Spec == Init /\ [][Next]_vars

(***************************************************************************)
(* Vocabulary of the properties                                            *)
(***************************************************************************)
Exited == pc = "exited"

\* extract_table_configs has just returned table_configs
ExtractorReturned == pc = "validate"

\* validate_colexc_statements has just returned errors
MatcherReturned == pc = "report"
Ran(step) == step \in Range(steps)
Printed(line) == line \in Range(out)
ConnectionEstablished == Printed("connected")
LoaderFailed == Printed("connect_failed") \/ query.outcome \in {"execute_error", "row_error"}
ParserFailed == file \in {"not_found", "invalid_json"}

tORDERS == <<"O", "R", "D", "E", "R", "S">>
fSSN == <<"S", "S", "N">>
fDOB == <<"D", "O", "B">>
stTABLE_ORDERS == <<"T", "A", "B", "L", "E", " ", "O", "R", "D", "E", "R", "S">>
stCOLEXC_SSN == <<"C", "O", "L", "E", "X", "C", " ", "S", "S", "N">>
stCOLEXC_DOB == <<"C", "O", "L", "E", "X", "C", " ", "D", "O", "B">>

\* the reference map {"ORDERS": ["SSN", "DOB"]}
MapIsOrdersSsnDob ==
    /\ DOMAIN exclude_fields = {tORDERS}
    /\ Range(exclude_fields[tORDERS]) = {fSSN, fDOB}
    /\ Len(exclude_fields[tORDERS]) = 2

NoDuplicates(seq) == \A i, j \in DOMAIN seq : seq[i] = seq[j] => i = j

\* The patterns, stated by positions instead of by a scan.
\* s holds, somewhere, TABLE + whitespace + an identifier character at j.
RefStarts(s) ==
    {j \in 1..Len(s) :
        /\ InClass("ident", s[j])
        /\ \E i \in 1..(j - Len(kwTABLE) - 1) :
              /\ \A p \in (i + Len(kwTABLE))..(j - 1) : IsSpace(s[p])
              /\ MatchCI(s, i, kwTABLE)}

\* [found, text]: whether the pattern captures an identifier in s, and the
\* identifier of the leftmost match: the longest run of identifier
\* characters from the first such position
CaptureOf(s) ==
    LET starts == RefStarts(s)
    IN  IF starts = {} THEN [found |-> FALSE, text |-> <<>>]
        ELSE LET j == CHOOSE a \in starts : \A b \in starts : a <= b
                 e == CHOOSE a \in j..Len(s) :
                          /\ \A p \in j..a : InClass("ident", s[p])
                          /\ (a = Len(s) \/ ~InClass("ident", s[a + 1]))
             IN  [found |-> TRUE, text |-> SubSeq(s, j, e)]

Captures(s) == CaptureOf(s).found

Captured(s) == CaptureOf(s).text

\* the text after the final dot of ref (all of ref when it has no dot)
Suffix(ref) ==
    LET k == CHOOSE a \in 0..Len(ref) :
                 /\ (a = 0 \/ ref[a] = ".")
                 /\ \A p \in (a + 1)..Len(ref) : ref[p] # "."
    IN  Slice(ref, k + 1, Len(ref))

\* s holds COLEXC, whitespace, and a run of non-comma, non-whitespace
\* characters with field inside it, letter case ignored
HasColexcFor(s, field) ==
    \E i \in 1..Len(s) :
        /\ MatchCI(s, i, kwCOLEXC)
        /\ \E j \in (i + Len(kwCOLEXC) + 1)..Len(s) :
              /\ \A p \in (i + Len(kwCOLEXC))..(j - 1) : IsSpace(s[p])
              /\ \E a \in j..Len(s) :
                    /\ MatchCI(s, a, field)
                    /\ \A p \in j..(a + Len(field) - 1) : InClass("nonsep", s[p])

(***************************************************************************)
(* C1 - the exit status                                                    *)
(***************************************************************************)
\* what the extractor and the matcher make of the inputs of this run
Extracted == extract_table_configs(extract_config)

NothingToReport ==
    /\ file = "ok"
    /\ ~Extracted.exc
    /\ \/ Extracted.val = <<>>
       \/ validate_colexc_statements(Extracted.val, exclude_fields) = <<>>

\* with zero declarations the warning is printed and the matcher is not run
ZeroDeclarationsWarned ==
    (file = "ok" /\ ~Extracted.exc /\ Extracted.val = <<>>)
        => (Printed("warn_no_tables") /\ ~Ran("match"))

\* C1 as claimed: for every run of main(), the exit status is 0 exactly when
\* the three environment variables are present, the connection and the
\* query succeed, the file is read and parsed, and zero declarations were
\* extracted (warning, matcher not run) or the matcher returned no error;
\* in every other case the exit status is 1.
C1_AsClaimed ==
    Exited =>
        /\ exit_code \in {0, 1}
        /\ exit_code = 0 <=>
              /\ \A v \in EnvVars : env[v] \in {"empty", "set"}
              /\ ConnectionEstablished
              /\ query.outcome = "ok"
              /\ NothingToReport
        /\ ZeroDeclarationsWarned

\* C1, amended: for every run of main() whose command line the argument
\* parser accepts, the exit status is 0 exactly when the three environment
\* variables are set to non-empty values, the connection and the query
\* succeed, the file is read and parsed, extraction raises nothing, and zero
\* declarations were extracted (the warning is printed and the matcher is
\* not run, whatever the ExclusionMap holds) or the matcher returned no
\* error; in every other such run the exit status is 1.
C1_ExitStatus ==
    (Exited /\ argv = "ok") =>
        /\ exit_code \in {0, 1}
        /\ exit_code = 0 <=>
              /\ \A v \in EnvVars : env[v] = "set"
              /\ ConnectionEstablished
              /\ query.outcome = "ok"
              /\ NothingToReport
        /\ ZeroDeclarationsWarned

\* a run that ends with status 0 on zero declarations while the
\* ExclusionMap holds rules
C1_Witness ==
    /\ Exited
    /\ exit_code = 0
    /\ file = "ok"
    /\ table_configs = <<>>
    /\ Printed("warn_no_tables")
    /\ DOMAIN exclude_fields # {}

(***************************************************************************)
(* C2 - the connection is closed exactly once                              *)
(***************************************************************************)
\* C2: in every run in which the connection was established,
\* close_connection closes it exactly once before the process ends,
\* whatever the outcome; it is never closed twice, never left open, and
\* nothing is closed when no connection was established.
C2_ClosedExactlyOnce ==
    /\ close_calls <= 1
    /\ ~ConnectionEstablished => (close_calls = 0 /\ connection = "none")
    /\ (ConnectionEstablished /\ ~Exited) => (connection = "open" /\ close_calls = 0)
    /\ (ConnectionEstablished /\ Exited) => (connection = "closed" /\ close_calls = 1)

\* a run that ends by a CDCValidationError of the config parser, the
\* connection closed once
C2_Witness ==
    /\ Exited
    /\ file = "invalid_json"
    /\ Printed("validation_error")
    /\ exit_code = 1
    /\ connection = "closed"
    /\ close_calls = 1

(***************************************************************************)
(* C3 - the order of the steps, and where a failure ends the run           *)
(***************************************************************************)
Pipeline == <<"connect", "query", "open_config", "extract", "match", "report">>

\* C3: the steps happen in the order connect, load rules, parse, extract,
\* match, report; a failure of the reference loader or of the config parser
\* ends the run at that step with a nonzero exit: after a connection or
\* query failure the configuration file is never opened, and after a
\* missing or malformed file no declaration is extracted, the matcher is
\* never run, and no error list or pass/fail summary is printed.
C3_StepsInOrder ==
    /\ Len(steps) <= Len(Pipeline)
    /\ steps = SubSeq(Pipeline, 1, Len(steps))
    /\ LoaderFailed =>
          /\ ~Ran("open_config")
          /\ file = "none"
          /\ pc \in {"except", "finally", "exited"}
          /\ Exited => exit_code = 1
    /\ ParserFailed =>
          /\ ~Ran("extract") /\ ~Ran("match") /\ ~Ran("report")
          /\ table_configs = <<>>
          /\ errors = <<>>
          /\ \A line \in {"found", "failed", "error_line", "passed"} : ~Printed(line)
          /\ pc \in {"except", "finally", "exited"}
          /\ Exited => exit_code = 1

\* a run that ended on a missing configuration file, after the connection
\* and the query succeeded
C3_Witness ==
    /\ Exited
    /\ file = "not_found"
    /\ steps = <<"connect", "query", "open_config">>
    /\ exit_code = 1

(***************************************************************************)
(* C4 - every declaration is checked, the errors are accumulated           *)
(***************************************************************************)
\* declaration i has no extractable table name
Nameless(i) == extract_table_name(table_configs[i].table_statement) = <<>>

\* declaration i names a table of the ExclusionMap with a required field
\* that has no COLEXC in its context
Incomplete(i) ==
    LET name == extract_table_name(table_configs[i].table_statement)
    IN  /\ name # <<>>
        /\ name \in DOMAIN exclude_fields
        /\ \E k \in DOMAIN exclude_fields[name] :
              ~ColexcSearch(table_configs[i].full_config, 1, exclude_fields[name][k])

Failing == {i \in DOMAIN table_configs : Nameless(i) \/ Incomplete(i)}

\* C4: the returned error list holds exactly one entry, in declaration
\* order, for each declaration that has no extractable table name or names
\* a table of the ExclusionMap with a required field missing, and none for
\* any other declaration; the first failure does not stop the loop.
C4_OneErrorPerFailingDeclaration ==
    MatcherReturned =>
        LET failing == Failing
        IN  /\ Len(errors) = Cardinality(failing)
            /\ \A i \in failing :
                  LET e == errors[Cardinality({j \in failing : j <= i})]
                      name == extract_table_name(table_configs[i].table_statement)
                  IN  /\ e.extract_name = table_configs[i].extract_name
                      /\ name = <<>> =>
                            /\ e.kind = "no_table_name"
                            /\ e.subject = table_configs[i].table_statement
                      /\ name # <<>> =>
                            /\ e.kind = "missing_colexc"
                            /\ e.subject = name

\* three declarations: the first and the last fail, the one between them
\* names a table without rules
C4_Witness ==
    /\ MatcherReturned
    /\ Len(table_configs) = 3
    /\ Failing = {1, 3}
    /\ Len(errors) = 2
    /\ errors[1].kind = "missing_colexc"
    /\ errors[2].kind = "no_table_name"

(***************************************************************************)
(* C5 - which fields are reported missing                                  *)
(***************************************************************************)
\* the required fields of table name with no COLEXC statement in context
MissingIn(name, context) ==
    SelectSeq(exclude_fields[name], LAMBDA f : ~HasColexcFor(context, f))

\* the table a declaration names: the upper-cased text after the final dot
\* of the captured identifier, empty when there is none
TableOf(d) ==
    LET c == CaptureOf(d.table_statement)
    IN  IF c.found THEN Upper(Suffix(c.text)) ELSE <<>>

\* declaration d names a table of the ExclusionMap and lacks a field
Lacks(d) ==
    LET name == TableOf(d)
    IN  /\ name # <<>>
        /\ name \in DOMAIN exclude_fields
        /\ MissingIn(name, d.full_config) # <<>>

Lacking == SelectSeq(table_configs, Lacks)

MissingErrors == SelectSeq(errors, LAMBDA e : e.kind = "missing_colexc")

\* C5: for a declaration whose table name is a key of the ExclusionMap, the
\* fields reported missing are exactly the required fields F for which the
\* context holds no COLEXC + whitespace + run of non-comma, non-whitespace
\* characters containing F, letter case ignored (field names being column
\* identifiers: no comma, no whitespace); a declaration with every field
\* satisfied gets no error.
C5_MissingFieldsExact ==
    MatcherReturned =>
        LET lacking == Lacking
            reported == MissingErrors
        IN  /\ Len(reported) = Len(lacking)
            /\ \A k \in DOMAIN lacking :
                  LET name == TableOf(lacking[k])
                  IN  /\ reported[k].subject = name
                      /\ reported[k].fields = MissingIn(name, lacking[k].full_config)

\* rules ORDERS: SSN, DOB; a context with TABLE ORDERS and COLEXC SSN only:
\* the error names DOB and not SSN
C5_Witness ==
    /\ MatcherReturned
    /\ MapIsOrdersSsnDob
    /\ \E i \in DOMAIN table_configs :
          /\ Contains(table_configs[i].full_config, stCOLEXC_SSN)
          /\ ~Contains(Upper(table_configs[i].full_config), fDOB)
    /\ \E k \in DOMAIN errors :
          /\ errors[k].subject = tORDERS
          /\ errors[k].fields = <<fDOB>>

(***************************************************************************)
(* Strings under a value, by path                                          *)
(***************************************************************************)
MaxDepth == 5

Arity(val) == IF val.t \in {"dict", "list"} THEN Len(val.v) ELSE 0

Child(val, k) == IF val.t = "dict" THEN val.v[k][2] ELSE val.v[k]

RECURSIVE ValueAt(_, _)
ValueAt(val, path) ==
    IF path = <<>> THEN val ELSE ValueAt(Child(val, Head(path)), Tail(path))

\* the paths of at most depth steps that lead from val to a value
RECURSIVE PathsFrom(_, _)
PathsFrom(val, depth) ==
    {<<>>} \cup
    (IF depth = 0 THEN {}
     ELSE UNION {{<<k>> \o path : path \in PathsFrom(Child(val, k), depth - 1)} :
                    k \in 1..Arity(val)})

StringPaths(val) == {path \in PathsFrom(val, MaxDepth) : ValueAt(val, path).t = "str"}

\* the string values reachable under val
StringsUnder(val) == {ValueAt(val, path).v : path \in StringPaths(val)}

\* the entries of the top-level extract list
Entries ==
    LET extracts == Get(extract_config, "extracts", List(<<>>))
    IN  IF extracts.t = "list" THEN extracts.v ELSE <<>>

ConfigOf(k) == Get(Entries[k], "config", Dict(<<>>))

(***************************************************************************)
(* C6 - TABLE ORDERS, COLEXC SSN, COLEXC DOB                               *)
(***************************************************************************)
\* one extract whose config is a mapping that holds the three statements
HoldsTheThreeStatements ==
    /\ file = "ok"
    /\ extract_config.t = "dict"
    /\ Len(Entries) = 1
    /\ Entries[1].t = "dict"
    /\ ConfigOf(1).t = "dict"
    /\ \A st \in {stTABLE_ORDERS, stCOLEXC_SSN, stCOLEXC_DOB} :
          \E str \in StringsUnder(ConfigOf(1)) : Contains(str, st)

\* C6 as claimed: with the map {ORDERS: [SSN, DOB]}, a run over any
\* configuration whose single extract's config holds TABLE ORDERS,
\* COLEXC SSN and COLEXC DOB exits with success, wherever under config the
\* three statements are placed.
C6_AsClaimed ==
    (Exited /\ MapIsOrdersSsnDob /\ HoldsTheThreeStatements) => exit_code = 0

\* every string under config with a table declaration in it holds both
\* exclusion statements, and every declaration has a table name
StatementsShareTheString ==
    \A str \in StringsUnder(ConfigOf(1)) :
        \A m \in DOMAIN FindIter(str, 1) :
            /\ Contains(str, stCOLEXC_SSN)
            /\ Contains(str, stCOLEXC_DOB)
            /\ LET ref == Strip(Slice(str, FindIter(str, 1)[m][1], FindIter(str, 1)[m][2]))
               IN  Captures(ref) /\ Suffix(Captured(ref)) # <<>>

\* C6, amended: with the map {ORDERS: [SSN, DOB]}, a run over a
\* configuration whose single extract's config mapping holds TABLE ORDERS,
\* COLEXC SSN and COLEXC DOB exits with success when every string value
\* that holds a table declaration also holds COLEXC SSN and COLEXC DOB and
\* every declaration yields a table name.  (Statements placed in separate
\* string values or list elements are not seen together.)
C6_SuccessInOneString ==
    (Exited /\ MapIsOrdersSsnDob /\ HoldsTheThreeStatements /\ StatementsShareTheString)
        => exit_code = 0

\* such a run: one declaration, checked, no error, status 0
C6_Witness ==
    /\ Exited
    /\ MapIsOrdersSsnDob
    /\ HoldsTheThreeStatements
    /\ StatementsShareTheString
    /\ Len(table_configs) = 1
    /\ Ran("match")
    /\ exit_code = 0

(***************************************************************************)
(* C7 - "Could not extract table name"                                     *)
(***************************************************************************)
NoNameErrors == SelectSeq(errors, LAMBDA e : e.kind = "no_table_name")

Statements(tcs) == [k \in DOMAIN tcs |-> tcs[k].table_statement]
Subjects(es) == [k \in DOMAIN es |-> es[k].subject]

\* C7 as claimed: the error is recorded for a declaration exactly when the
\* declaration pattern captures no identifier in the statement; whenever an
\* identifier is captured no such error is recorded.
C7_AsClaimed ==
    MatcherReturned =>
        Subjects(NoNameErrors) =
            Statements(SelectSeq(table_configs, LAMBDA d : ~Captures(d.table_statement)))

\* no identifier captured, or nothing after the captured identifier's final dot
NoTableName(d) ==
    LET c == CaptureOf(d.table_statement)
    IN  ~c.found \/ Suffix(c.text) = <<>>

\* C7, amended: the error is recorded for a declaration, and the lookup
\* skipped, exactly when the pattern captures no identifier or the
\* captured identifier ends with a dot (TABLE SCHEMA.*, TABLE SCHEMA.);
\* every other declaration is looked up under the upper-cased text after
\* the identifier's final dot, and no such error is recorded for it.
C7_ErrorWhenNameEmpty ==
    MatcherReturned =>
        LET looked_up == SelectSeq(table_configs, LAMBDA d : ~NoTableName(d) /\ Lacks(d))
            reported == MissingErrors
        IN  /\ Subjects(NoNameErrors) = Statements(SelectSeq(table_configs, NoTableName))
            /\ Len(reported) = Len(looked_up)
            /\ \A k \in DOMAIN looked_up :
                  reported[k].subject =
                      Upper(Suffix(Captured(looked_up[k].table_statement)))

\* a wildcard declaration whose identifier is captured, with the error
C7_Witness ==
    /\ MatcherReturned
    /\ \E i \in DOMAIN table_configs :
          /\ Captures(table_configs[i].table_statement)
          /\ Contains(table_configs[i].table_statement, <<".", "*">>)
          /\ \E k \in DOMAIN errors :
                /\ errors[k].kind = "no_table_name"
                /\ errors[k].subject = table_configs[i].table_statement

(***************************************************************************)
(* C8 - what extract_table_configs returns                                 *)
(***************************************************************************)
\* entry k, a path to a string under its config, a match in that string
Origins ==
    UNION {UNION {{<<k, path, m>> :
                      m \in DOMAIN FindIter(ValueAt(ConfigOf(k), path).v, 1)} :
                  path \in StringPaths(ConfigOf(k))} :
           k \in DOMAIN Entries}

DeclarationAt(o) ==
    LET str == ValueAt(ConfigOf(o[1]), o[2]).v
        m == FindIter(str, 1)[o[3]]
    IN  TableConfig(Get(Entries[o[1]], "name", UNKNOWN), Strip(Slice(str, m[1], m[2])), str)

Occurrences(seq, x) == Cardinality({i \in DOMAIN seq : seq[i] = x})

\* C8: the returned list holds exactly one declaration per match of the
\* pattern in each string reachable under each entry's config, through any
\* nesting and under any key, each string scanned once; a declaration
\* carries its entry's name (UNKNOWN when unnamed) and the whole string it
\* was found in; an entry without config, or with an empty one, and strings
\* outside config, yield none.
C8_OneDeclarationPerMatch ==
    ExtractorReturned =>
        LET origins == Origins
            found == [o \in origins |-> DeclarationAt(o)]
        IN  /\ Len(table_configs) = Cardinality(origins)
            /\ \A o \in origins :
                  Occurrences(table_configs, found[o]) =
                      Cardinality({o2 \in origins : found[o2] = found[o]})

\* an unnamed entry with two declarations in one string, four levels down,
\* and strings with TABLE outside config
C8_Witness ==
    /\ ExtractorReturned
    /\ Len(table_configs) = 2
    /\ table_configs[1].full_config = table_configs[2].full_config
    /\ table_configs[1].table_statement # table_configs[2].table_statement
    /\ table_configs[1].extract_name = UNKNOWN
    /\ \E path \in StringPaths(ConfigOf(1)) : Len(path) = 4
    /\ HasKey(Entries[1], "note")

(***************************************************************************)
(* C9 - duplicate rules                                                    *)
(***************************************************************************)
\* C9 as claimed: in the ExclusionMap each upper-cased field name appears at
\* most once per table, also when the warehouse returns a pair twice or
\* pairs that differ in letter case only; a missing-field error never names
\* a field twice.
C9_AsClaimed ==
    /\ \A name \in DOMAIN exclude_fields : NoDuplicates(exclude_fields[name])
    /\ \A k \in DOMAIN errors : NoDuplicates(errors[k].fields)

(***************************************************************************)
(* C10 - a missing environment variable                                    *)
(***************************************************************************)
ListedVariables == {v \in EnvVars : Printed(v)}

\* C10 as claimed: if one of the three variables is missing, the run ends
\* with exit code 1 before any connection is attempted and before the
\* configuration file is read, and the printed listing names which of the
\* three are missing.
C10_AsClaimed ==
    (Exited /\ \E v \in EnvVars : Falsy(env[v])) =>
        /\ exit_code = 1
        /\ steps = <<>>
        /\ connection = "none"
        /\ file = "none"
        /\ ListedVariables = {v \in EnvVars : Falsy(env[v])}

=============================================================================
